---- MODULE Spec2Model ----
(***************************************************************************)
(* photo_framer: the sizing / compositing pipeline of framer::frame_image  *)
(* and the two ways main drives it (a single image, a directory).          *)
(*                                                                         *)
(* Numbers.  f32 values are modelled exactly as dyadic rationals m * 2^e   *)
(* with an odd mantissa m < 2^24; every f32 operation is the exact result  *)
(* rounded to 24 significant bits, ties to even (IEEE-754 binary32).  u32  *)
(* subtraction either panics (overflow checks on, the dev profile) or      *)
(* wraps modulo 2^32 (overflow checks off, the release profile).           *)
(***************************************************************************)
EXTENDS Integers, Sequences

\* ---------------------------------------------------------------- bounds
MaxDim == 13        \* source images are 1..MaxDim pixels on each axis
MaxRatio == 13      \* aspect-ratio components are the integers 1..MaxRatio
MaxTarget == 6      \* Dimensions(w, h) targets are 0..MaxTarget
MaxFiles == 2       \* entries in the input directory

\* ------------------------------------------------------- Option<T> values
None == <<>>
Some(x) == <<x>>
IsSome(o) == Len(o) = 1
Unwrap(o) == o[1]

\* ------------------------------------------------------------ f32 values
Mant24 == 16777216   \* 2^24: an f32 significand has 24 bits
Mant23 == 8388608    \* 2^23

RECURSIVE Reduce(_, _)
\* canonical form of m * 2^e: odd mantissa
Reduce(m, e) == IF m % 2 = 0 THEN Reduce(m \div 2, e + 1) ELSE [m |-> m, e |-> e]

RECURSIVE ShiftUp(_, _, _)
\* least k >= 0 with n * 2^k >= 2^23 * d
ShiftUp(n, d, k) == IF n >= Mant23 * d THEN k ELSE ShiftUp(2 * n, d, k + 1)

RECURSIVE ShiftDown(_, _, _)
\* least j >= 0 with n < lim * 2^j
ShiftDown(n, lim, j) == IF n < lim THEN j ELSE ShiftDown(n \div 2, lim, j + 1)

\* quotient n / d rounded to an integer, ties to even
RoundTiesEven(n, d) ==
    LET q == n \div d
        r == n % d
    IN  IF 2 * r > d \/ (2 * r = d /\ q % 2 = 1) THEN q + 1 ELSE q

\* the f32 nearest to (n / d) * 2^e0, for integers n, d >= 1
F32Round(n, d, e0) ==
    LET j == ShiftDown(n \div d, Mant24, 0)
        k == IF j = 0 THEN ShiftUp(n, d, 0) ELSE 0
    IN  Reduce(RoundTiesEven(n * (2 ^ k), d * (2 ^ j)), e0 + j - k)

\* `x as f32` for a u32 below 2^24: exact
F32FromU32(n) == Reduce(n, 0)

\* f32 division
F32Div(x, y) == F32Round(x.m, y.m, x.e - y.e)

Limb == 4096         \* 2^12: a 24-bit significand is two 12-bit limbs

\* f32 multiplication.  The product of the significands is kept as
\* hi * 2^12 + lo, which a 32-bit integer holds for x.m below 2^8, and is
\* rounded to 24 bits, ties to even.
F32Mul(x, y) ==
    LET hi == x.m * (y.m \div Limb)
        lo == x.m * (y.m % Limb)
        j == ShiftDown(hi + (lo \div Limb), Limb, 0)
        q == hi * (2 ^ (12 - j)) + (lo \div (2 ^ j))
        r == lo % (2 ^ j)
    IN  Reduce(IF 2 * r > 2 ^ j \/ (2 * r = 2 ^ j /\ q % 2 = 1)
               THEN q + 1 ELSE q,
               x.e + y.e + j)

\* mantissa scaled to exactly 24 bits, with the matching exponent
F32Norm(x) ==
    LET k == ShiftUp(x.m, 1, 0) IN [m |-> x.m * (2 ^ k), e |-> x.e - k]

\* x < y on positive finite f32 values
F32Lt(x, y) ==
    LET a == F32Norm(x)
        b == F32Norm(y)
    IN  a.e < b.e \/ (a.e = b.e /\ a.m < b.m)

\* `x as u32` for a positive finite f32: truncation toward zero
F32AsU32(x) == IF x.e >= 0 THEN x.m * (2 ^ x.e) ELSE x.m \div (2 ^ (0 - x.e))


\* ------------------------------------------------- u32 arithmetic (wrapping)
I32Max == 2147483647   \* 2^31 - 1, so that 2^32 = 2 * (I32Max + 1)

\* (a - b) / 2 in u32 with wrapping subtraction and truncating division:
\* ((a - b) mod 2^32) div 2
WrappingSubHalf(a, b) ==
    IF a >= b THEN (a - b) \div 2 ELSE I32Max + (((a - b) \div 2) + 1)

\* --------------------------------------------------- command-line texts
Digits == <<"0", "1", "2", "3", "4", "5", "6", "7", "8", "9">>

IsDigit(c) == \E i \in 1..10 : Digits[i] = c
DigitVal(c) == (CHOOSE i \in 1..10 : Digits[i] = c) - 1

RECURSIVE U32ToText(_)
\* decimal text of n, as a sequence of characters
U32ToText(n) ==
    IF n < 10 THEN <<Digits[n + 1]>>
    ELSE Append(U32ToText(n \div 10), Digits[(n % 10) + 1])

\* str::split_once: the text before and after the first occurrence of c
SplitOnce(s, c) ==
    IF \E i \in 1..Len(s) : s[i] = c
    THEN LET i == CHOOSE k \in 1..Len(s) :
                    s[k] = c /\ \A l \in 1..(k - 1) : s[l] # c
         IN  Some(<<SubSeq(s, 1, i - 1), SubSeq(s, i + 1, Len(s))>>)
    ELSE None

RECURSIVE DecimalValue(_)
DecimalValue(t) ==
    IF t = <<>> THEN 0
    ELSE 10 * DecimalValue(SubSeq(t, 1, Len(t) - 1)) + DigitVal(t[Len(t)])

\* parse::<u32> on texts short enough not to overflow: digits only, not empty
ParseU32(t) ==
    IF t # <<>> /\ \A i \in 1..Len(t) : IsDigit(t[i])
    THEN Some(DecimalValue(t)) ELSE None

\* parse::<f32> on whole-number texts: the value is exactly representable
ParseF32(t) ==
    IF t # <<>> /\ \A i \in 1..Len(t) : IsDigit(t[i])
    THEN Some(F32FromU32(DecimalValue(t))) ELSE None

\* ------------------------------------------------------------- Sizing
NoSizing == [kind |-> "None"]
Dimensions(w, h) == [kind |-> "Dimensions", w |-> w, h |-> h]
AspectRatio(w, h) == [kind |-> "AspectRatio", w |-> w, h |-> h]

\* main: the match on (cli.aspect_ratio, cli.dimensions); None = exit(CONFIG)
ParseSizing(c) ==
    IF ~IsSome(c.aspect_ratio) /\ IsSome(c.dimensions)
    THEN LET parts == SplitOnce(Unwrap(c.dimensions), "x") IN
         IF ~IsSome(parts) THEN None
         ELSE LET width == ParseU32(Unwrap(parts)[1])
                  height == ParseU32(Unwrap(parts)[2])
              IN  IF IsSome(width) /\ IsSome(height)
                  THEN Some(Dimensions(Unwrap(width), Unwrap(height)))
                  ELSE None
    ELSE IF IsSome(c.aspect_ratio) /\ ~IsSome(c.dimensions)
    THEN LET parts == SplitOnce(Unwrap(c.aspect_ratio), ":") IN
         IF ~IsSome(parts) THEN None
         ELSE LET width == ParseF32(Unwrap(parts)[1])
                  height == ParseF32(Unwrap(parts)[2])
              IN  IF IsSome(width) /\ IsSome(height)
                  THEN Some(AspectRatio(Unwrap(width), Unwrap(height)))
                  ELSE None
    ELSE None

\* ------------------------------------------------------------ resizing
\* f64::round of n / d >= 0: half away from zero
RoundHalfAway(n, d) == (2 * n + d) \div (2 * d)

Max(a, b) == IF a >= b THEN a ELSE b

\* image::math::utils::resize_dimensions(width, height, nwidth, nheight,
\* fill = false): the largest size of the same aspect ratio that fits in
\* nwidth x nheight, each axis at least 1.  The f64 products are computed
\* exactly here; they agree with f64 for all sizes up to 15.
ResizeDimensions(width, height, nwidth, nheight) ==
    IF nwidth * height <= nheight * width
    THEN <<Max(RoundHalfAway(width * nwidth, width), 1),
           Max(RoundHalfAway(height * nwidth, width), 1)>>
    ELSE <<Max(RoundHalfAway(width * nheight, height), 1),
           Max(RoundHalfAway(height * nheight, height), 1)>>

\* variant of Resize: DynamicImage::resize_exact, which stretches the image
\* to the target without keeping its aspect ratio
ResizeExact(d, nwidth, nheight) == <<nwidth, nheight>>

\* DynamicImage::resize(nwidth, nheight, filter): dimensions of the result
Resize(d, nwidth, nheight) ==
    IF <<nwidth, nheight>> = d THEN d
    ELSE ResizeDimensions(d[1], d[2], nwidth, nheight)

\* ----------------------------------------------------- canvas dimensions
\* variant of AspectRatioCanvas: the vertical-bar arm takes the canvas
\* height from dim.0 instead of dim.1
AspectRatioCanvasWrongSide(d, w, h) ==
    IF F32Lt(F32Div(F32FromU32(d[1]), w), F32Div(F32FromU32(d[2]), h))
    THEN <<F32AsU32(F32Mul(F32FromU32(d[2]), F32Div(w, h))), d[1]>>
    ELSE <<d[1], F32AsU32(F32Mul(F32FromU32(d[1]), F32Div(h, w)))>>

\* the AspectRatio arm of the match in frame_image
AspectRatioCanvas(d, w, h) ==
    IF F32Lt(F32Div(F32FromU32(d[1]), w), F32Div(F32FromU32(d[2]), h))
    THEN <<F32AsU32(F32Mul(F32FromU32(d[2]), F32Div(w, h))), d[2]>>
    ELSE <<d[1], F32AsU32(F32Mul(F32FromU32(d[1]), F32Div(h, w)))>>

\* -------------------------------------------------------------- overlay
Clamp(x, lo, hi) == IF x < lo THEN lo ELSE IF x > hi THEN hi ELSE x

NoRegion == [x |-> 0, y |-> 0, tx |-> 0, ty |-> 0, xr |-> 0, yr |-> 0]

\* imageops::overlay_bounds_ext for offsets x, y >= 0: the rectangle of
\* the bottom image that is written, and the top pixel it starts from
OverlayBounds(bottom, top, x, y) ==
    IF x > bottom[1] \/ y > bottom[2] THEN NoRegion
    ELSE LET maxx == Clamp(x + top[1], 0, bottom[1])
             maxy == Clamp(y + top[2], 0, bottom[2])
             minx == Clamp(x, 0, bottom[1])
             miny == Clamp(y, 0, bottom[2])
         IN  [x |-> minx, y |-> miny,
              tx |-> Clamp(0 - x, 0, top[1]), ty |-> Clamp(0 - y, 0, top[2]),
              xr |-> maxx - minx, yr |-> maxy - miny]

\* Rgb([255, 255, 255]), and pixel (i, j) of the image that is overlaid
White == [px |-> "white", x |-> 0, y |-> 0]
SourcePixel(i, j) == [px |-> "source", x |-> i, y |-> j]

\* pixel (x, y) of a white canvas after the overlay wrote region r: the
\* loop copies top pixel (r.tx + i, r.ty + j) to bottom (r.x + i, r.y + j)
PixelAt(r, x, y) ==
    IF r.x <= x /\ x < r.x + r.xr /\ r.y <= y /\ y < r.y + r.yr
    THEN SourcePixel(r.tx + (x - r.x), r.ty + (y - r.y))
    ELSE White


\* ---------------------------------------------------------------- files
accepted_extensions == {"jpeg", "jpg", "png", "webp"}

\* a file of the input: its extension (an Option), whether it opens and
\* decodes, and the dimensions of the image it holds
File(ext, decodes, d) == [ext |-> ext, decodes |-> decodes, dim |-> d]

Absent == [state |-> "absent", dim |-> <<0, 0>>, region |-> NoRegion]
Old == [state |-> "old", dim |-> <<0, 0>>, region |-> NoRegion]
Partial == [state |-> "partial", dim |-> <<0, 0>>, region |-> NoRegion]
Written(d, r) == [state |-> "written", dim |-> d, region |-> r]

SourceDims == (1..MaxDim) \X (1..MaxDim)

\* ---------------------------------------------------------------- state
VARIABLES
    cli,               \* Cli: aspect_ratio and dimensions, Options of texts
    overflow_checks,   \* build profile: u32 overflow panics (TRUE) or wraps
    input_is_dir,      \* cli.input.read_dir() succeeds
    input,             \* the file at cli.input when it is not a directory
    dir_files,         \* the entries read_dir yields, in order
    main_pc,           \* position in main
    sizing,            \* the Sizing main parsed
    next_file,         \* index of the next directory entry
    framed,            \* indices of the entries passed to frame_image
    exit_code,         \* how the process ended
    pc,                \* position in frame_image
    img_file,          \* the file frame_image was called on
    dim,               \* img.dimensions()
    background_dim,    \* background_image.dimensions()
    offset,            \* (x, y) passed to overlay
    region,            \* the region of background_image the overlay wrote
    result,            \* what frame_image returned
    output_file        \* the file at the output path of the current call

vars == <<cli, overflow_checks, input_is_dir, input, dir_files, main_pc,
          sizing, next_file, framed, exit_code, pc, img_file, dim,
          background_dim, offset, region, result, output_file>>

mainVars == <<main_pc, sizing, next_file, framed, exit_code>>
envVars == <<cli, overflow_checks, input_is_dir, input, dir_files>>
frameVars == <<pc, img_file, dim, background_dim, offset, region, result>>

\* ------------------------------------------------------------ the inputs
DimensionsArg(w, h) ==
    [aspect_ratio |-> None,
     dimensions |-> Some(U32ToText(w) \o <<"x">> \o U32ToText(h))]
AspectRatioArg(w, h) ==
    [aspect_ratio |-> Some(U32ToText(w) \o <<":">> \o U32ToText(h)),
     dimensions |-> None]

\* command lines that do not give a sizing
BadArgs ==
    { [aspect_ratio |-> None, dimensions |-> None],
      [aspect_ratio |-> Some(<<"1", ":", "1">>),
       dimensions |-> Some(<<"1", "x", "1">>)],
      [aspect_ratio |-> None, dimensions |-> Some(<<"1", "2">>)],
      [aspect_ratio |-> None, dimensions |-> Some(<<"x", "2">>)],
      [aspect_ratio |-> Some(<<"1", ":", "a">>), dimensions |-> None] }

CliArgs ==
    {DimensionsArg(w, h) : w \in 0..MaxTarget, h \in 0..MaxTarget}
    \cup {AspectRatioArg(w, h) : w \in 1..MaxRatio, h \in 1..MaxRatio}
    \cup BadArgs

Images == {File(Some("png"), TRUE, d) : d \in SourceDims}
Undecodable == File(Some("jpg"), FALSE, <<0, 0>>)
InputFiles ==
    Images \cup {Undecodable, File(Some("txt"), TRUE, <<1, 1>>),
                 File(None, TRUE, <<1, 1>>)}

FrameIdle ==
    /\ pc = "idle"
    /\ img_file = Undecodable
    /\ dim = <<0, 0>>
    /\ background_dim = <<0, 0>>
    /\ offset = <<0, 0>>
    /\ region = NoRegion
    /\ result = "none"

MainStart ==
    /\ main_pc = "sizing"
    /\ sizing = NoSizing
    /\ next_file = 1
    /\ framed = {}
    /\ exit_code = "none"

\* main called on a single image
Init ==
    /\ cli \in CliArgs
    /\ overflow_checks \in BOOLEAN
    /\ input_is_dir = FALSE
    /\ input \in InputFiles
    /\ dir_files = <<>>
    /\ output_file \in {Absent, Old}
    /\ MainStart
    /\ FrameIdle


\* a directory: the entries read_dir yields are errors or files
Entry(err, f) == [err |-> err, file |-> f]

BatchEntries ==
    { Entry(TRUE, Undecodable),
      Entry(FALSE, Undecodable),
      Entry(FALSE, File(Some("png"), TRUE, <<11, 13>>)),
      Entry(FALSE, File(Some("webp"), TRUE, <<2, 1>>)),
      Entry(FALSE, File(Some("txt"), TRUE, <<1, 1>>)),
      Entry(FALSE, File(None, FALSE, <<0, 0>>)) }

BatchArgs ==
    { DimensionsArg(0, 1), DimensionsArg(2, 2),
      AspectRatioArg(11, 13), AspectRatioArg(1, 1) } \cup BadArgs

RECURSIVE SeqsUpTo(_, _)
\* the sequences over S of length at most n
SeqsUpTo(S, n) ==
    IF n = 0 THEN {<<>>}
    ELSE LET shorter == SeqsUpTo(S, n - 1)
         IN  shorter \cup {Append(q, x) : q \in shorter, x \in S}

\* main called on a directory whose output directory is empty
InitBatch ==
    /\ cli \in BatchArgs
    /\ overflow_checks \in BOOLEAN
    /\ input_is_dir = TRUE
    /\ input = Undecodable
    /\ dir_files \in SeqsUpTo(BatchEntries, MaxFiles)
    /\ output_file = Absent
    /\ MainStart
    /\ FrameIdle

\* ------------------------------------------------------------------ main
Exit(code) ==
    /\ main_pc' = "exited"
    /\ exit_code' = code

\* pc and arguments on entry to frame_image(file, output, sizing)
Call(f) ==
    /\ pc' = "decode"
    /\ img_file' = f
    /\ dim' = <<0, 0>>
    /\ background_dim' = <<0, 0>>
    /\ offset' = <<0, 0>>
    /\ region' = NoRegion
    /\ result' = "none"

\* main: validate the sizing parameter
ValidateSizing ==
    /\ main_pc = "sizing"
    /\ LET s == ParseSizing(cli) IN
       IF IsSome(s)
       THEN /\ sizing' = Unwrap(s)
            /\ main_pc' = IF input_is_dir THEN "loop" ELSE "single"
            /\ exit_code' = exit_code
       ELSE /\ Exit("CONFIG")
            /\ sizing' = sizing
    /\ UNCHANGED <<next_file, framed, output_file>>
    /\ UNCHANGED envVars
    /\ UNCHANGED frameVars

\* main, the input is one image: check the extension, call frame_image
SingleCall ==
    /\ main_pc = "single"
    /\ IF ~IsSome(input.ext)
       THEN Exit("DATAERR") /\ UNCHANGED frameVars
       ELSE IF Unwrap(input.ext) \notin accepted_extensions
       THEN Exit("CONFIG") /\ UNCHANGED frameVars
       ELSE /\ main_pc' = "single_call"
            /\ exit_code' = exit_code
            /\ Call(input)
    /\ UNCHANGED <<sizing, next_file, framed, output_file>>
    /\ UNCHANGED envVars

\* main, the input is one image: frame_image returned (or panicked)
SingleReturn ==
    /\ main_pc = "single_call"
    /\ pc = "ret"
    /\ Exit(CASE result = "Err" -> "CANTCREAT"
              [] result = "Panic" -> "PANIC"
              [] OTHER -> "OK")
    /\ pc' = "idle"
    /\ UNCHANGED <<sizing, next_file, framed, output_file>>
    /\ UNCHANGED <<img_file, dim, background_dim, offset, region, result>>
    /\ UNCHANGED envVars

\* main, the input is a directory: one iteration of `for file in dir_files`
\* up to the call of frame_image
LoopNext ==
    /\ main_pc = "loop"
    /\ next_file <= Len(dir_files)
    /\ LET e == dir_files[next_file] IN
       IF e.err \/ (IsSome(e.file.ext)
                     /\ Unwrap(e.file.ext) \notin accepted_extensions)
       THEN /\ next_file' = next_file + 1
            /\ UNCHANGED <<main_pc, framed, output_file>>
            /\ UNCHANGED frameVars
       ELSE /\ main_pc' = "loop_call"
            /\ framed' = framed \cup {next_file}
            /\ output_file' = Absent
            /\ next_file' = next_file
            /\ Call(e.file)
    /\ UNCHANGED <<sizing, exit_code>>
    /\ UNCHANGED envVars

\* main, the input is a directory: frame_image returned (or panicked)
LoopReturn ==
    /\ main_pc = "loop_call"
    /\ pc = "ret"
    /\ IF result = "Panic"
       THEN Exit("PANIC") /\ next_file' = next_file
       ELSE /\ main_pc' = "loop"
            /\ next_file' = next_file + 1
            /\ exit_code' = exit_code
    /\ pc' = "idle"
    /\ UNCHANGED <<sizing, framed, output_file>>
    /\ UNCHANGED <<img_file, dim, background_dim, offset, region, result>>
    /\ UNCHANGED envVars

\* main, the input is a directory: the iterator is exhausted
LoopEnd ==
    /\ main_pc = "loop"
    /\ next_file > Len(dir_files)
    /\ Exit("OK")
    /\ UNCHANGED <<sizing, next_file, framed, output_file>>
    /\ UNCHANGED frameVars
    /\ UNCHANGED envVars

\* ----------------------------------------------------------- frame_image
Return(r) ==
    /\ pc' = "ret"
    /\ result' = r

\* variant of Decode: the output file is created before the input is
\* decoded, so a decode failure leaves a truncated output behind
DecodeAfterCreate ==
    /\ pc = "decode"
    /\ IF img_file.decodes
       THEN /\ dim' = img_file.dim
            /\ pc' = "sizing"
            /\ result' = result
       ELSE /\ Return("Err")
            /\ dim' = dim
    /\ output_file' = Partial
    /\ UNCHANGED <<img_file, background_dim, offset, region>>
    /\ UNCHANGED mainVars
    /\ UNCHANGED envVars

\* ImageReader::open(input)?.decode()?
Decode ==
    /\ pc = "decode"
    /\ IF img_file.decodes
       THEN /\ dim' = img_file.dim
            /\ pc' = "sizing"
            /\ result' = result
       ELSE /\ Return("Err")
            /\ dim' = dim
    /\ UNCHANGED <<img_file, background_dim, offset, region, output_file>>
    /\ UNCHANGED mainVars
    /\ UNCHANGED envVars

\* Sizing::Dimensions(w, h): resize the image, allocate a w x h canvas
SizeDimensions ==
    /\ pc = "sizing"
    /\ sizing.kind = "Dimensions"
    /\ dim' = Resize(dim, sizing.w, sizing.h)
    /\ background_dim' = <<sizing.w, sizing.h>>
    /\ pc' = "offset"
    /\ UNCHANGED <<img_file, offset, region, result, output_file>>
    /\ UNCHANGED mainVars
    /\ UNCHANGED envVars

\* Sizing::AspectRatio(w, h): allocate the canvas around the image
SizeAspectRatio ==
    /\ pc = "sizing"
    /\ sizing.kind = "AspectRatio"
    /\ background_dim' = AspectRatioCanvas(dim, sizing.w, sizing.h)
    /\ pc' = "offset"
    /\ UNCHANGED <<img_file, dim, offset, region, result, output_file>>
    /\ UNCHANGED mainVars
    /\ UNCHANGED envVars

\* the axis the bars are on: 1 when the widths are equal (the offset is
\* vertical, on axis 2), else 2 (the offset is on axis 1)
SameAxis(d, bd) == IF d[1] = bd[1] THEN 1 ELSE 2

\* variant of OffsetOf: the difference is not halved, so the source is
\* pushed against the far edge instead of centred
OffsetOfNotHalved(d, bd) ==
    IF SameAxis(d, bd) = 1
    THEN <<0, Max(bd[2] - d[2], 0)>>
    ELSE <<Max(bd[1] - d[1], 0), 0>>

\* the (x, y) the overlay is called with
OffsetOf(d, bd) ==
    IF SameAxis(d, bd) = 1
    THEN <<0, WrappingSubHalf(bd[2], d[2])>>
    ELSE <<WrappingSubHalf(bd[1], d[1]), 0>>

\* the u32 subtraction of the branch taken goes below zero
Underflows(d, bd) ==
    IF SameAxis(d, bd) = 1 THEN bd[2] < d[2] ELSE bd[1] < d[1]

\* let offset = (background_dim.N - dim.N) / 2
Offset ==
    /\ pc = "offset"
    /\ IF Underflows(dim, background_dim) /\ overflow_checks
       THEN /\ Return("Panic")
            /\ offset' = offset
       ELSE /\ offset' = OffsetOf(dim, background_dim)
            /\ pc' = "overlay"
            /\ result' = result
    /\ UNCHANGED <<img_file, dim, background_dim, region, output_file>>
    /\ UNCHANGED mainVars
    /\ UNCHANGED envVars

\* overlay(&mut background_image, &img.to_rgb8(), x, y)
Overlay ==
    /\ pc = "overlay"
    /\ region' = OverlayBounds(background_dim, dim, offset[1], offset[2])
    /\ pc' = "save"
    /\ UNCHANGED <<img_file, dim, background_dim, offset, result, output_file>>
    /\ UNCHANGED mainVars
    /\ UNCHANGED envVars

\* background_image.save(output)?; Ok(())
Save ==
    /\ pc = "save"
    /\ \E ok \in BOOLEAN, partial \in BOOLEAN :
          IF ok
          THEN /\ ~partial
               /\ output_file' = Written(background_dim, region)
               /\ Return("Ok")
          ELSE /\ output_file' = IF partial THEN Partial ELSE output_file
               /\ Return("Err")
    /\ UNCHANGED <<img_file, dim, background_dim, offset, region>>
    /\ UNCHANGED mainVars
    /\ UNCHANGED envVars

Next ==
    \/ ValidateSizing
    \/ SingleCall
    \/ SingleReturn
    \/ Decode
    \/ SizeDimensions
    \/ SizeAspectRatio
    \/ Offset
    \/ Overlay
    \/ Save

NextBatch ==
    \/ ValidateSizing
    \/ LoopNext
    \/ LoopReturn
    \/ LoopEnd
    \/ Decode
    \/ SizeDimensions
    \/ SizeAspectRatio
    \/ Offset
    \/ Overlay
    \/ Save

Spec == Init /\ [][Next]_vars

\* main runs to completion: every step that is enabled is eventually taken
SpecBatch == InitBatch /\ [][NextBatch]_vars /\ WF_vars(NextBatch)

TypeOK ==
    /\ main_pc \in {"sizing", "single", "single_call", "loop", "loop_call",
                    "exited"}
    /\ pc \in {"idle", "decode", "sizing", "offset", "overlay", "save", "ret"}
    /\ result \in {"none", "Ok", "Err", "Panic"}


\* ============================================================ properties
\* the sizing main parsed is one the specification calls valid
ValidSizing ==
    \/ sizing.kind = "Dimensions" /\ sizing.w >= 1 /\ sizing.h >= 1
    \/ sizing.kind = "AspectRatio"

\* the canvas is allocated, frame_image has not returned
Allocated == pc \in {"offset", "overlay", "save"}
\* the offset is computed and the overlay is about to run or has run
Placed == pc \in {"overlay", "save"}
\* the overlay has run
Composited == pc = "save"

Abs(x) == IF x < 0 THEN 0 - x ELSE x

\* C1: for a valid sizing the canvas frame_image allocates is at least as
\* wide and as tall as the (possibly resized) source overlaid on it, and
\* neither offset subtraction goes below zero.
C1_CanvasContainsSource ==
    (Allocated /\ ValidSizing) =>
        /\ background_dim[1] >= dim[1]
        /\ background_dim[2] >= dim[2]
        /\ ~Underflows(dim, background_dim)

\* C2: in AspectRatio(w, h) mode, if sw/w < sh/h the canvas is
\* (round(sh * w / h), sh), otherwise (ties included) it is
\* (sw, round(sw * h / w)): the computed side is rounded to the nearest
\* integer.
C2_CanvasIsRounded ==
    (Allocated /\ sizing.kind = "AspectRatio") =>
        LET w == F32AsU32(sizing.w)
            h == F32AsU32(sizing.h)
        IN  IF dim[1] * h < dim[2] * w
            THEN background_dim = <<RoundHalfAway(dim[2] * w, h), dim[2]>>
            ELSE background_dim = <<dim[1], RoundHalfAway(dim[1] * h, w)>>

\* some pixel of the composited canvas is white border
HasBorder ==
    \E x \in 0..(background_dim[1] - 1), y \in 0..(background_dim[2] - 1) :
        PixelAt(region, x, y) = White

\* C3 (as stated): in Dimensions(w, h) mode with w, h >= 1 the source is
\* resized to exactly w x h, so it equals the canvas, the offset is (0, 0)
\* and no white border pixel remains.
C3_StretchedToTarget ==
    (sizing.kind = "Dimensions" /\ ValidSizing) =>
        /\ Allocated => dim = <<sizing.w, sizing.h>> /\ dim = background_dim
        /\ Placed => offset = <<0, 0>>
        /\ Composited => ~HasBorder

\* C3 (amended): in Dimensions(w, h) mode with w, h >= 1 the canvas is
\* exactly w x h and the source is resized with its aspect ratio kept, to
\* the largest size that fits: one side equals the target, the other is
\* at most the target and is the proportional length rounded (at least 1).
\* The source is centred, and white border remains exactly when the
\* resized source differs from the canvas.
C3_FittedToTarget ==
    (sizing.kind = "Dimensions" /\ ValidSizing) =>
        LET sw == img_file.dim[1]
            sh == img_file.dim[2]
        IN  /\ Allocated =>
                /\ background_dim = <<sizing.w, sizing.h>>
                /\ dim[1] <= sizing.w /\ dim[2] <= sizing.h
                /\ \/ /\ dim[1] = sizing.w
                      /\ \/ Abs(2 * dim[2] * sw - 2 * sh * sizing.w) <= sw
                         \/ dim[2] = 1 /\ 2 * sh * sizing.w < sw
                   \/ /\ dim[2] = sizing.h
                      /\ \/ Abs(2 * dim[1] * sh - 2 * sw * sizing.h) <= sh
                         \/ dim[1] = 1 /\ 2 * sw * sizing.h < sh
            /\ Placed =>
                offset = <<(background_dim[1] - dim[1]) \div 2,
                           (background_dim[2] - dim[2]) \div 2>>
            /\ Composited => (HasBorder <=> dim # background_dim)

\* C3 witness: a 4:3 source fitted into a square target, border left over
C3_Witness ==
    /\ Composited
    /\ sizing.kind = "Dimensions" /\ sizing.w = sizing.h /\ sizing.w >= 1
    /\ img_file.dim = <<4, 3>>
    /\ dim # background_dim
    /\ HasBorder

HalfOfU32Difference(o, c, s) ==
    IF c >= s THEN o = (c - s) \div 2
    ELSE 2 * ((o - I32Max) - 1) \in {(c - s) - 1, c - s}

C5_Composite ==
    (Composited /\ ValidSizing) =>
        /\ \A x \in 0..(background_dim[1] - 1),
              y \in 0..(background_dim[2] - 1) :
              PixelAt(region, x, y) =
                  IF /\ offset[1] <= x /\ x - offset[1] < dim[1]
                     /\ offset[2] <= y /\ y - offset[2] < dim[2]
                  THEN SourcePixel(x - offset[1], y - offset[2])
                  ELSE White
        /\ offset[1] <= background_dim[1] - dim[1]
        /\ offset[2] <= background_dim[2] - dim[2]

\* frame_image is running or has returned to main
InCall == main_pc \in {"single_call", "loop_call"}

\* C6: when opening or decoding the input fails, frame_image returns an
\* error, the save step is never reached and the output path is left as it
\* was before the call.
C6_DecodeFailureKeepsOutput ==
    /\ [][(pc = "decode" /\ ~img_file.decodes) =>
             (pc' = "ret" /\ result' = "Err" /\ output_file' = output_file)]_vars
    /\ []((InCall /\ ~img_file.decodes) =>
             /\ pc \in {"decode", "ret"}
             /\ output_file \in {Absent, Old}
             /\ pc = "ret" => result = "Err")

\* C6 witness: the call on an undecodable file returned over an old output
C6_Witness ==
    /\ InCall /\ ~img_file.decodes
    /\ pc = "ret" /\ result = "Err"
    /\ output_file = Old

\* C7: Dimensions(w, h) with w = 0 or h = 0, which the command line
\* accepts, is rejected with an error before any canvas is allocated.
C7_ZeroDimensionsRejected ==
    (sizing.kind = "Dimensions" /\ (sizing.w = 0 \/ sizing.h = 0)) =>
        /\ ~Allocated
        /\ pc = "ret" => result = "Err"

\* entry i of the directory is a file with an accepted extension
AcceptedEntry(i) ==
    /\ ~dir_files[i].err
    /\ IsSome(dir_files[i].file.ext)
    /\ Unwrap(dir_files[i].file.ext) \in accepted_extensions

\* C8: on a directory, a failure of frame_image on one image does not end
\* the process, and every entry with an accepted extension is passed to
\* frame_image whatever happened to the entries before it.
C8_BatchContinues ==
    (main_pc = "exited" /\ ValidSizing) =>
        /\ exit_code = "OK"
        /\ \A i \in 1..Len(dir_files) : AcceptedEntry(i) => i \in framed

\* C9: AspectRatio sizing is idempotent: sizing an image that has the
\* size of the canvas just computed gives that canvas size again.
C9_Idempotent ==
    (Allocated /\ sizing.kind = "AspectRatio"
        /\ background_dim[1] >= 1 /\ background_dim[2] >= 1) =>
        AspectRatioCanvas(background_dim, sizing.w, sizing.h) = background_dim

\* C10: for a valid sizing, when the offset is computed the canvas width
\* equals the source width or the canvas height equals the source height;
\* whenever the else branch (widths differ) is taken the heights are
\* equal, so that branch never puts the source at vertical offset zero on
\* a canvas taller than it.
C10_OneAxisEqual ==
    (Allocated /\ ValidSizing) =>
        /\ background_dim[1] = dim[1] \/ background_dim[2] = dim[2]
        /\ SameAxis(dim, background_dim) = 2 => background_dim[2] = dim[2]
        /\ (Placed /\ SameAxis(dim, background_dim) = 2) =>
               ~(offset[2] = 0 /\ background_dim[2] > dim[2])

\* C10 witness: the else branch placed the source between vertical bars
C10_Witness ==
    /\ Placed /\ ValidSizing
    /\ SameAxis(dim, background_dim) = 2
    /\ offset[1] > 0

====
